---- MODULE Spec2Model ----
(***************************************************************************)
(* sqlar-rs: the SQL archive engine.                                       *)
(*   - the codec registered as the SQL functions rusty_sqlar_compress and  *)
(*     rusty_sqlar_uncompress (src/src/extract.rs);                        *)
(*   - create, extract and with_each_file (src/src/lib.rs);                *)
(*   - with_each_entry / iterate (src/src/list.rs).                        *)
(* Paths are sequences of components, the first component "/" marking an   *)
(* absolute path.  Blobs are sequences of bytes.  A 64-bit SQL integer is  *)
(* kept in two limbs [q, r] (value q * 2^16 + r) so that values outside    *)
(* the 32-bit range can be written down.                                   *)
(***************************************************************************)
EXTENDS Integers, Sequences, FiniteSets, TLC

VARIABLES
    fs,           \* the filesystem: path -> [mode, mtime, data]
    ar,           \* the archive file: [exists, table, rows]
    pc,           \* the command in progress: idle, create, extract or read
    roots,        \* create's argument `paths`
    fault,        \* the I/O failure the environment holds in store
    ri,           \* create: index of the root being walked
    walk,         \* create: the WalkDir iterator of the current root
    remaining,    \* extract/read: indexes of the rows the statement has yet to return
    decompress,   \* read: with_each_entry's argument
    delivered,    \* read: what the callback f has been handed, per row index
    res,          \* what each command returned: none, ok, err or panic
    hist,         \* history: what create and extract did
    cx,           \* codec run: the blob value given to compress
    csz,          \* codec run: the SZ argument given to uncompress
    cstored,      \* codec run: what compress returned
    cout,         \* codec run: what uncompress returned
    cpc           \* codec run: position

vars == <<fs, ar, pc, roots, fault, ri, walk, remaining, decompress, delivered,
          res, hist, cx, csz, cstored, cout, cpc>>

progVars == <<fs, ar, pc, roots, fault, ri, walk, remaining, decompress,
              delivered, res, hist>>

codecVars == <<cx, csz, cstored, cout, cpc>>

-----------------------------------------------------------------------------
(* Bounds of the model *)

\* the longest run of one byte in a generated blob
MaxRun == 9

\* the most root paths handed to create
MaxRoots == 2

\* the (whole-second) time at which extract runs; source mtimes lie before it
ExtractTime == 7

-----------------------------------------------------------------------------
(* SQL values *)

Limb == 2^16

\* the 64-bit integer n, for an n within 32 bits
I64(n) == [q |-> n \div Limb, r |-> n % Limb]

\* the 64-bit integer n - 2^32 (below the 32-bit range for n <= 2^31)
I64Low(n) == [q |-> (n \div Limb) - Limb, r |-> n % Limb]

FitsI32(v) == v.q >= -(2^15) /\ v.q < 2^15

Null == [t |-> "null", v |-> <<>>]

Blob(b) == [t |-> "blob", v |-> b]

RECURSIVE Rep(_, _)
Rep(b, n) == IF n = 0 THEN <<>> ELSE <<b>> \o Rep(b, n - 1)

-----------------------------------------------------------------------------
(* zlib (flate2), reduced to what the codec relies on: a two-byte header,  *)
(* a stream that shrinks repetitive input (here run-length tokens          *)
(* <<count, byte>>), and the four-byte Adler-32 trailer.  Decoding checks  *)
(* header, framing and checksum and fails on anything else.                *)

RECURSIVE RunLen(_, _)
RunLen(x, i) ==
    IF i < Len(x) /\ x[i + 1] = x[1] THEN RunLen(x, i + 1) ELSE i

RECURSIVE Deflate(_)
Deflate(x) ==
    IF x = <<>> THEN <<>>
    ELSE LET n == RunLen(x, 1)
         IN  <<n, x[1]>> \o Deflate(SubSeq(x, n + 1, Len(x)))

RECURSIVE AdlerA(_, _)
AdlerA(x, i) == IF i = 0 THEN 1 ELSE (AdlerA(x, i - 1) + x[i]) % 65521

RECURSIVE AdlerB(_, _)
AdlerB(x, i) == IF i = 0 THEN 0 ELSE (AdlerB(x, i - 1) + AdlerA(x, i)) % 65521

Adler32(x) ==
    LET a == AdlerA(x, Len(x))
        b == AdlerB(x, Len(x))
    IN  <<b \div 256, b % 256, a \div 256, a % 256>>

ZlibHeader == <<120, 156>>

ZlibEncode(x) == ZlibHeader \o Deflate(x) \o Adler32(x)

RECURSIVE Inflate(_)
Inflate(s) ==
    IF s = <<>> THEN <<>>
    ELSE Rep(s[2], s[1]) \o Inflate(SubSeq(s, 3, Len(s)))

\* ZlibDecoder::read_to_end: [ok, out]
ZlibDecode(s) ==
    LET body == SubSeq(s, 3, Len(s) - 4)
        out  == Inflate(body)
    IN  IF /\ Len(s) >= 6
           /\ SubSeq(s, 1, 2) = ZlibHeader
           /\ Len(body) % 2 = 0
           /\ SubSeq(s, Len(s) - 3, Len(s)) = Adler32(out)
        THEN [ok |-> TRUE, out |-> out]
        ELSE [ok |-> FALSE, out |-> <<>>]

-----------------------------------------------------------------------------
(* The codec: the two SQL functions *)

Ok(v) == [ok |-> TRUE, val |-> v]

Err == [ok |-> FALSE, val |-> Null]

\* the comparison `compressed.len() < blob.len()` with <= in its place
KeepCompressedLoose(compressed, blob) == Len(compressed) <= Len(blob)

KeepCompressed(compressed, blob) == Len(compressed) < Len(blob)

\* rusty_sqlar_compress(X)
SqlarCompress(value) ==
    IF value.t = "blob"
    THEN LET compressed == ZlibEncode(value.v)
         IN  IF KeepCompressed(compressed, value.v)
             THEN Blob(compressed)
             ELSE value
    ELSE value

\* `ctx.get::<i32>(1)`: the SZ argument as a 32-bit integer, or an error
SizeArg(sz) ==
    IF FitsI32(sz)
    THEN [ok |-> TRUE, n |-> sz.q * Limb + sz.r]
    ELSE [ok |-> FALSE, n |-> 0]

\* rusty_sqlar_uncompress(X, SZ): Ok(value) or Err
SqlarUncompress(value, sz) ==
    LET size == SizeArg(sz)
    IN  IF ~size.ok THEN Err
        ELSE IF size.n <= 0 THEN Ok(value)
        ELSE IF value.t = "blob"
             THEN IF Len(value.v) = size.n
                  THEN Ok(value)
                  ELSE LET dec == ZlibDecode(value.v)
                       IN  IF dec.ok THEN Ok(Blob(dec.out)) ELSE Err
             ELSE Ok(value)

-----------------------------------------------------------------------------
(* Codec runs: the two functions applied to generated arguments *)

Bytes == {0, 7}

BlobInputs ==
    {Rep(a, i) \o Rep(b, j) : a \in Bytes, b \in Bytes, i \in 0..MaxRun, j \in 0..2}

\* stored payloads: raw blobs, zlib streams, and the NULL of a directory row
StoredInputs ==
    {Blob(x) : x \in BlobInputs} \cup {Blob(ZlibEncode(x)) : x \in BlobInputs}
        \cup {Null}

\* SZ arguments: around zero, the lengths in use, and both ends of the 64-bit
\* range that lie outside 32 bits
SizeInputs ==
    {I64(n) : n \in -2..(MaxRun + 2)}
        \cup {I64Low(0), [q |-> -(2^15) - 1, r |-> Limb - 1], [q |-> 2^15, r |-> 0]}

CodecInit ==
    /\ cx \in StoredInputs
    /\ csz \in SizeInputs
    /\ cstored = Null
    /\ cout = Err
    /\ cpc = "start"

\* INSERT ... rusty_sqlar_compress(?5): the payload bound by create is a blob
CodecCompress ==
    /\ cpc = "start"
    /\ cx.t = "blob"
    /\ cstored' = SqlarCompress(cx)
    /\ cpc' = "stored"
    /\ UNCHANGED <<cx, csz, cout>>

\* SELECT rusty_sqlar_uncompress(data, sz) on the row create wrote: sz = len(x)
CodecRoundTrip ==
    /\ cpc = "stored"
    /\ cout' = SqlarUncompress(cstored, I64(Len(cx.v)))
    /\ cpc' = "done"
    /\ UNCHANGED <<cx, csz, cstored>>

\* SELECT rusty_sqlar_uncompress(data, sz) on any row
CodecUncompress ==
    /\ cpc = "start"
    /\ cout' = SqlarUncompress(cx, csz)
    /\ cpc' = "decoded"
    /\ UNCHANGED <<cx, csz, cstored>>

CodecNext == CodecCompress \/ CodecRoundTrip \/ CodecUncompress

-----------------------------------------------------------------------------
(* Paths and the filesystem *)

Oct(a, b, c) == a * 64 + b * 8 + c

\* `stat.st_mode` values
S_IFMT == 61440

S_IFREG == 32768

S_IFDIR == 16384

\* a FIFO: neither a regular file nor a directory
S_IFIFO == 2^12

\* mode & S_IFMT
TypeBits(mode) == ((mode \div 2^12) % ((S_IFMT \div 2^12) + 1)) * 2^12

\* impl From<u32> for FileType
FileTypeOfMode(mode) ==
    IF TypeBits(mode) = S_IFREG THEN "File"
    ELSE IF TypeBits(mode) = S_IFDIR THEN "Dir"
    ELSE "Unsupported"

\* impl From<fs::FileType> for FileType: is_file() and is_dir() read the
\* type bits of the object's st_mode
FileTypeOfFs(node) ==
    IF TypeBits(node.mode) = S_IFREG THEN "File"
    ELSE IF TypeBits(node.mode) = S_IFDIR THEN "Dir"
    ELSE "Unsupported"

Cwd == <<>>

RootDir == <<"/">>

D == <<"d">>

F == <<"d", "f">>

E == <<"/", "e">>

Dest == <<"out">>

\* Path::is_absolute (Unix): the path starts at the root
IsAbsolute(name) == Len(name) >= 1 /\ name[1] = "/"

\* Path::join: an absolute argument replaces the base
Join(base, name) == IF IsAbsolute(name) THEN name ELSE base \o name

Parent(p) == SubSeq(p, 1, Len(p) - 1)

IsDirNode(n) == TypeBits(n.mode) = S_IFDIR

IsFileNode(n) == TypeBits(n.mode) = S_IFREG

\* the owner's permission bits: the process owns what it touches and is not
\* the superuser
OwnerBits(n) == (n.mode \div 64) % 8

Searchable(n) == IsDirNode(n) /\ OwnerBits(n) % 2 = 1

Writable(n) == (OwnerBits(n) \div 2) % 2 = 1

\* the kernel's path walk: every component but the last names a searchable
\* directory; ".." steps to the parent of the directory reached so far
RECURSIVE ResolveFrom(_, _, _)
ResolveFrom(f, done, rest) ==
    IF rest = <<>> THEN [ok |-> TRUE, path |-> done]
    ELSE IF ~(done \in DOMAIN f /\ Searchable(f[done]))
         THEN [ok |-> FALSE, path |-> done]
    ELSE IF Head(rest) = ".."
         THEN IF done \in {Cwd, RootDir}
              THEN [ok |-> FALSE, path |-> done]
              ELSE ResolveFrom(f, Parent(done), Tail(rest))
    ELSE ResolveFrom(f, done \o <<Head(rest)>>, Tail(rest))

Resolve(f, p) ==
    IF IsAbsolute(p) THEN ResolveFrom(f, RootDir, Tail(p))
    ELSE ResolveFrom(f, Cwd, p)

Put(f, p, n) == [k \in DOMAIN f \cup {p} |-> IF k = p THEN n ELSE f[k]]

Touch(f, p, t) == [f EXCEPT ![p].mtime = t]

FsFail(f) == [ok |-> FALSE, fs |-> f]

\* the modes new objects get under umask 022
NewDirMode == S_IFDIR + Oct(7, 5, 5)

NewFileMode == S_IFREG + Oct(6, 4, 4)

\* mkdir(2): the parent must exist and be writable, the target must not exist;
\* the new entry updates the parent's modification time
FsCreateDir(f, p, now) ==
    LET r == Resolve(f, p)
    IN  IF ~r.ok \/ r.path \in DOMAIN f \/ r.path \in {Cwd, RootDir}
        THEN FsFail(f)
        ELSE IF ~Writable(f[Parent(r.path)]) THEN FsFail(f)
        ELSE [ok |-> TRUE,
              fs |-> Touch(Put(f, r.path, [mode |-> NewDirMode, mtime |-> now,
                                           data |-> <<>>]),
                           Parent(r.path), now)]

\* std::fs::create_dir_all: nothing to do for an existing directory
FsCreateDirAll(f, p, now) ==
    LET r == Resolve(f, p)
    IN  IF r.ok /\ r.path \in DOMAIN f
        THEN IF IsDirNode(f[r.path]) THEN [ok |-> TRUE, fs |-> f] ELSE FsFail(f)
        ELSE FsCreateDir(f, p, now)

\* File::create: open(O_WRONLY | O_CREAT | O_TRUNC)
FsCreateFile(f, p, now) ==
    LET r == Resolve(f, p)
    IN  IF ~r.ok \/ r.path \in {Cwd, RootDir} THEN FsFail(f)
        ELSE IF r.path \in DOMAIN f
             THEN IF IsFileNode(f[r.path]) /\ Writable(f[r.path])
                  THEN [ok |-> TRUE,
                        fs |-> [f EXCEPT ![r.path].data = <<>>,
                                         ![r.path].mtime = now]]
                  ELSE FsFail(f)
        ELSE IF ~Writable(f[Parent(r.path)]) THEN FsFail(f)
        ELSE [ok |-> TRUE,
              fs |-> Touch(Put(f, r.path, [mode |-> NewFileMode, mtime |-> now,
                                           data |-> <<>>]),
                           Parent(r.path), now)]

\* write_all on the handle File::create returned
FsWrite(f, p, data, now) ==
    LET r == Resolve(f, p)
    IN  [f EXCEPT ![r.path].data = data, ![r.path].mtime = now]

\* filetime::set_file_mtime
FsSetMtime(f, p, t) ==
    LET r == Resolve(f, p)
    IN  IF r.ok /\ r.path \in DOMAIN f
        THEN [ok |-> TRUE, fs |-> Touch(f, r.path, t)]
        ELSE FsFail(f)

\* fs::metadata, Permissions::set_mode, fs::set_permissions: chmod(2) keeps
\* the type bits
FsSetMode(f, p, mode) ==
    LET r == Resolve(f, p)
    IN  IF r.ok /\ r.path \in DOMAIN f
        THEN [ok |-> TRUE,
              fs |-> [f EXCEPT ![r.path].mode =
                                   TypeBits(f[r.path].mode) + (mode % 4096)]]
        ELSE FsFail(f)

Children(f, p) ==
    {c \in DOMAIN f : Len(c) = Len(p) + 1 /\ SubSeq(c, 1, Len(p)) = p /\ c # RootDir}

-----------------------------------------------------------------------------
(* The archive: the table sqlar(name PRIMARY KEY, mode, mtime, sz, data) *)

Names(rows) == {rows[i].name : i \in 1..Len(rows)}

\* the PRIMARY KEY constraint left out of SCHEMA
InsertUnchecked(rows, row) == [ok |-> TRUE, rows |-> Append(rows, row)]

\* INSERT INTO sqlar: the PRIMARY KEY on name rejects a second row of a name
Insert(rows, row) ==
    IF row.name \in Names(rows)
    THEN [ok |-> FALSE, rows |-> rows]
    ELSE [ok |-> TRUE, rows |-> Append(rows, row)]

\* Connection::open creates the file when it is missing
OpenArchive(a) == [a EXCEPT !.exists = TRUE]

\* conn.prepare: the statement names the table and, in full mode, the function
\* rusty_sqlar_uncompress, which exists on a connection only after init
Prepare(a, dec, funcs) == a.table /\ (dec => funcs)

\* the columns of one row as an Entry (the closure given to query_map);
\* any column that does not convert, or a failing SQL function, is an error
EntryOf(row, dec) ==
    LET u == IF dec THEN SqlarUncompress(row.data, row.sz) ELSE Ok(Null)
    IN  IF ~u.ok \/ row.mode < 0 \/ row.sz.q < 0
        THEN [ok |-> FALSE]
        ELSE [ok |-> TRUE,
              name |-> row.name,
              mode |-> row.mode % 512,
              filetype |-> FileTypeOfMode(row.mode),
              mtime |-> row.mtime,
              size |-> row.sz,
              compressed_size |-> IF row.data.t = "blob" THEN Len(row.data.v) ELSE 0,
              data |-> u.val]

-----------------------------------------------------------------------------
(* create *)

NoFault == [path |-> <<"-">>, kind |-> "none"]

Fails(p, kind) == fault = [path |-> p, kind |-> kind]

\* format!("{}", path.display()): the path as it was walked, root included;
\* the names of the model are valid UTF-8, which display() leaves as they are
Display(p) == p

\* `.unwrap_or(0)`: a time before the epoch is archived as 0
Secs(t) == IF t < 0 THEN 0 ELSE t

NewWalk == [start |-> TRUE, stack |-> <<>>]

\* walkdir's push: open the directory just yielded; a read_dir error is kept
\* in the list and comes out as the next item
Push(w, p) ==
    IF IsDirNode(fs[p])
    THEN [w EXCEPT !.stack =
              Append(@, [dir |-> p,
                         err |-> Fails(p, "readdir"),
                         left |-> IF Fails(p, "readdir") THEN {}
                                  ELSE Children(fs, p)])]
    ELSE w

SetTop(w, l) == [w EXCEPT !.stack[Len(w.stack)] = l]

Pop(w) == [w EXCEPT !.stack = SubSeq(@, 1, Len(@) - 1)]

\* walkdir's IntoIter::next: the items the iterator may yield next, each with
\* the iterator's state afterwards (directory order is the OS's choice)
RECURSIVE WalkNext(_, _)
WalkNext(w, root) ==
    IF w.start
    THEN IF root \notin DOMAIN fs \/ Fails(root, "stat")
         THEN {[kind |-> "err", path |-> root, w |-> [w EXCEPT !.start = FALSE]]}
         ELSE {[kind |-> "ok", path |-> root,
                w |-> Push([w EXCEPT !.start = FALSE], root)]}
    ELSE IF w.stack = <<>>
         THEN {[kind |-> "end", path |-> root, w |-> w]}
    ELSE LET top == w.stack[Len(w.stack)]
         IN  IF top.err
             THEN {[kind |-> "err", path |-> top.dir,
                    w |-> SetTop(w, [top EXCEPT !.err = FALSE])]}
             ELSE IF top.left = {} THEN WalkNext(Pop(w), root)
             ELSE {LET rest == SetTop(w, [top EXCEPT !.left = @ \ {c}])
                   IN  IF Fails(c, "stat")
                       THEN [kind |-> "err", path |-> c, w |-> rest]
                       ELSE [kind |-> "ok", path |-> c, w |-> Push(rest, c)]
                   : c \in top.left}

\* `if archive.exists()` with the test left out
ArchiveExistsNever(a) == FALSE

\* archive.exists()
ArchiveExists(a) == a.exists

\* create up to the loops: the exists test, Connection::open, init, SCHEMA
CreateCall ==
    /\ pc = "idle"
    /\ res.create = "none"
    /\ IF ArchiveExists(ar)
       THEN /\ res' = [res EXCEPT !.create = "ok"]
            /\ UNCHANGED <<ar, pc, hist>>
       ELSE /\ hist' = [hist EXCEPT !.opened = TRUE]
            /\ IF ar.table
               THEN \* CREATE TABLE fails: the table is there
                    /\ res' = [res EXCEPT !.create = "err"]
                    /\ ar' = OpenArchive(ar)
                    /\ pc' = pc
               ELSE /\ ar' = [OpenArchive(ar) EXCEPT !.table = TRUE]
                    /\ pc' = "create"
                    /\ res' = res
    /\ ri' = 1
    /\ walk' = NewWalk
    /\ UNCHANGED <<fs, roots, fault, remaining, decompress, delivered, codecVars>>

\* the row create builds for the object at p
RowOf(p, data) ==
    [name |-> Display(p),
     mode |-> fs[p].mode,
     mtime |-> Secs(fs[p].mtime),
     sz |-> I64(Len(data)),
     data |-> SqlarCompress(Blob(data))]

\* the object is skipped although its content could not be read to the end
SkipsObjectButRead(p, isFile) ==
    \/ Fails(p, "meta")
    \/ isFile /\ Fails(p, "open")

\* the `continue`s of the loop body: metadata, File::open or read_to_end failed
SkipsObject(p, isFile) ==
    \/ Fails(p, "meta")
    \/ isFile /\ (Fails(p, "open") \/ Fails(p, "read"))

\* one turn of the inner loop: the next item of the walk
CreateEntry ==
    /\ pc = "create"
    /\ roots # <<>>
    /\ \E it \in WalkNext(walk, roots[ri]) :
          /\ it.kind # "end"
          /\ walk' = it.w
          /\ IF it.kind = "err"
             THEN \* failed to read entry
                  /\ hist' = [hist EXCEPT !.walkerr = @ \cup {it.path}]
                  /\ UNCHANGED <<ar, pc, res>>
             ELSE LET p == it.path
                      isFile == FileTypeOfFs(fs[p]) = "File"
                  IN  IF SkipsObject(p, isFile)
                      THEN /\ hist' = [hist EXCEPT !.yielded = @ \cup {p},
                                                   !.skipped = @ \cup {p}]
                           /\ UNCHANGED <<ar, pc, res>>
                      ELSE LET ins == Insert(ar.rows,
                                             RowOf(p, IF isFile THEN fs[p].data
                                                      ELSE <<>>))
                           IN  /\ hist' = [hist EXCEPT !.yielded = @ \cup {p},
                                                       !.collided =
                                                           IF ins.ok THEN @
                                                           ELSE @ \cup {p}]
                               /\ ar' = [ar EXCEPT !.rows = ins.rows]
                               /\ IF ins.ok
                                  THEN UNCHANGED <<pc, res>>
                                  ELSE /\ pc' = "idle"
                                       /\ res' = [res EXCEPT !.create = "err"]
    /\ UNCHANGED <<fs, roots, fault, ri, remaining, decompress, delivered, codecVars>>

\* the walk of one root is over: on to the next root
CreateNextRoot ==
    /\ pc = "create"
    /\ ri < Len(roots)
    /\ \E it \in WalkNext(walk, roots[ri]) : it.kind = "end"
    /\ ri' = ri + 1
    /\ walk' = NewWalk
    /\ UNCHANGED <<fs, ar, pc, roots, fault, remaining, decompress, delivered,
                   res, hist, codecVars>>

\* every root is walked: Ok(())
CreateReturn ==
    /\ pc = "create"
    /\ ri >= Len(roots)
    /\ roots # <<>> => \E it \in WalkNext(walk, roots[ri]) : it.kind = "end"
    /\ pc' = "idle"
    /\ res' = [res EXCEPT !.create = "ok"]
    /\ UNCHANGED <<fs, ar, roots, fault, ri, walk, remaining, decompress,
                   delivered, hist, codecVars>>

-----------------------------------------------------------------------------
(* extract *)

\* whether the connection of each reader has run extract::init
ExtractConnFuncs == TRUE

ListConnFuncs == FALSE

\* extract up to the loop: create_dir_all(dest), Connection::open, init, and
\* with_each_file's prepare and query_map
ExtractCall ==
    /\ pc = "idle"
    /\ res.extract = "none"
    /\ LET mk == FsCreateDirAll(fs, Dest, ExtractTime)
       IN  IF ~mk.ok
           THEN \* can't create target directory
                /\ res' = [res EXCEPT !.extract = "panic"]
                /\ UNCHANGED <<fs, ar, pc, remaining>>
           ELSE /\ fs' = mk.fs
                /\ ar' = OpenArchive(ar)
                /\ IF Prepare(ar, TRUE, ExtractConnFuncs)
                   THEN /\ pc' = "extract"
                        /\ remaining' = 1..Len(ar.rows)
                        /\ res' = res
                   ELSE /\ res' = [res EXCEPT !.extract = "err"]
                        /\ UNCHANGED <<pc, remaining>>
    /\ UNCHANGED <<roots, fault, ri, walk, decompress, delivered, hist, codecVars>>

\* the safety gate with the test left out
EscapesDestNever(name) == FALSE

\* the safety gate with a second test, for parent-directory segments
EscapesDestOrClimbs(name) ==
    IsAbsolute(name) \/ \E k \in 1..Len(name) : name[k] = ".."

\* the safety gate: `Path::new(&entry.name).is_absolute()`
EscapesDest(name) == IsAbsolute(name)

\* expect / unwrap with the panic left out: the failure is passed over
ExpectLenient(ok) == "ok"

\* .expect(..) / .unwrap() on the closure's I/O results: Err is a panic, and
\* the panic unwinds through with_each_file and extract
Expect(ok) == IF ok THEN "ok" ELSE "panic"

\* the closure extract hands to with_each_file, on one entry: [status, fs, made]
\* (a write_all that fails is taken to have written nothing)
ExtractOne(f, entry) ==
    IF EscapesDest(entry.name)
    THEN \* absolute file path found, skipping
         [status |-> "ok", fs |-> f, made |-> FALSE]
    ELSE LET path == Join(Dest, entry.name)
             made == IF entry.filetype = "Dir"
                     THEN FsCreateDir(f, path, ExtractTime)
                     ELSE FsCreateFile(f, path, ExtractTime)
         IN  IF entry.filetype = "Unsupported"
             THEN [status |-> "ok", fs |-> f, made |-> FALSE]
             ELSE IF ~made.ok
                  THEN \* can't create directory / can't create file
                       [status |-> Expect(FALSE), fs |-> f, made |-> FALSE]
             ELSE LET payload == entry.filetype = "File" /\ entry.data.t = "blob"
                      wrote == ~(payload /\ Fails(path, "write"))
                      written == IF payload /\ wrote
                                 THEN FsWrite(made.fs, path, entry.data.v, ExtractTime)
                                 ELSE made.fs
                      timed == IF Fails(path, "utime") THEN FsFail(written)
                               ELSE FsSetMtime(written, path, entry.mtime)
                      moded == IF Fails(path, "chmod") THEN FsFail(timed.fs)
                               ELSE FsSetMode(timed.fs, path, entry.mode)
                  IN  IF Expect(wrote) # "ok"
                      THEN [status |-> Expect(wrote), fs |-> written, made |-> TRUE]
                      ELSE IF Expect(timed.ok) # "ok"
                      THEN [status |-> Expect(timed.ok), fs |-> written, made |-> TRUE]
                      ELSE IF Expect(moded.ok) # "ok"
                      THEN [status |-> Expect(moded.ok), fs |-> timed.fs, made |-> TRUE]
                      ELSE [status |-> "ok", fs |-> moded.fs, made |-> TRUE]

\* one turn of with_each_file's loop inside extract: the statement returns a
\* row (in no promised order), it becomes an Entry, the closure runs on it
ExtractEntry ==
    /\ pc = "extract"
    /\ \E i \in remaining :
          LET e == EntryOf(ar.rows[i], TRUE)
          IN  /\ remaining' = remaining \ {i}
              /\ IF ~e.ok
                 THEN /\ pc' = "idle"
                      /\ res' = [res EXCEPT !.extract = "err"]
                      /\ UNCHANGED <<fs, hist>>
                 ELSE LET x == ExtractOne(fs, e)
                      IN  /\ fs' = x.fs
                          /\ hist' = [hist EXCEPT
                                         !.made = IF x.made THEN @ \cup {i} ELSE @]
                          /\ IF x.status = "ok"
                             THEN UNCHANGED <<pc, res>>
                             ELSE /\ pc' = "idle"
                                  /\ res' = [res EXCEPT !.extract = x.status]
    /\ UNCHANGED <<ar, roots, fault, ri, walk, decompress, delivered, codecVars>>

\* the statement is out of rows: Ok(())
ExtractReturn ==
    /\ pc = "extract"
    /\ remaining = {}
    /\ pc' = "idle"
    /\ res' = [res EXCEPT !.extract = "ok"]
    /\ UNCHANGED <<fs, ar, roots, fault, ri, walk, remaining, decompress,
                   delivered, hist, codecVars>>

-----------------------------------------------------------------------------
(* with_each_entry / iterate *)

\* with_each_entry up to the loop: Connection::open, then iterate's prepare
\* and query_map
ReadCall ==
    /\ pc = "idle"
    /\ res.read = "none"
    /\ \E dec \in BOOLEAN :
          /\ decompress' = dec
          /\ ar' = OpenArchive(ar)
          /\ IF Prepare(ar, dec, ListConnFuncs)
             THEN /\ pc' = "read"
                  /\ remaining' = 1..Len(ar.rows)
                  /\ delivered' = [i \in 1..Len(ar.rows) |-> <<>>]
                  /\ res' = res
             ELSE /\ res' = [res EXCEPT !.read = "err"]
                  /\ UNCHANGED <<pc, remaining, delivered>>
    /\ UNCHANGED <<fs, roots, fault, ri, walk, hist, codecVars>>

\* one turn of iterate's loop: a row becomes an Entry and the callback f gets
\* it; f answers Ok or Err
ReadEntry ==
    /\ pc = "read"
    /\ \E i \in remaining, fok \in BOOLEAN :
          LET e == EntryOf(ar.rows[i], decompress)
          IN  /\ remaining' = remaining \ {i}
              /\ IF ~e.ok
                 THEN /\ pc' = "idle"
                      /\ res' = [res EXCEPT !.read = "err"]
                      /\ UNCHANGED delivered
                 ELSE /\ delivered' = [delivered EXCEPT
                                           ![i] = Append(@, [entry |-> e, fok |-> fok])]
                      /\ IF fok
                         THEN UNCHANGED <<pc, res>>
                         ELSE /\ pc' = "idle"
                              /\ res' = [res EXCEPT !.read = "err"]
    /\ UNCHANGED <<fs, ar, roots, fault, ri, walk, decompress, hist, codecVars>>

\* the statement is out of rows: Ok(())
ReadReturn ==
    /\ pc = "read"
    /\ remaining = {}
    /\ pc' = "idle"
    /\ res' = [res EXCEPT !.read = "ok"]
    /\ UNCHANGED <<fs, ar, roots, fault, ri, walk, remaining, decompress,
                   delivered, hist, codecVars>>

-----------------------------------------------------------------------------
(* Initial states and the specifications *)

Node(mode, mtime, data) == [mode |-> mode, mtime |-> mtime, data |-> data]

\* file contents: empty, too short to shrink, and a run that shrinks
Contents == {<<>>, <<1, 2>>, Rep(7, MaxRun)}

\* the tree create is pointed at: a directory d holding a file d/f, and a file
\* /e outside the working directory
Tree(dmode, fdata, fmtime) ==
    (Cwd :> Node(S_IFDIR + Oct(7, 5, 5), 1, <<>>))
        @@ (RootDir :> Node(S_IFDIR + Oct(5, 5, 5), 1, <<>>))
        @@ (D :> Node(S_IFDIR + dmode, 1, <<>>))
        @@ (F :> Node(S_IFREG + Oct(6, 4, 4), fmtime, fdata))
        @@ (E :> Node(S_IFREG + Oct(6, 0, 0), 3, <<1, 2>>))

RECURSIVE SeqsUpTo(_, _)
SeqsUpTo(S, n) ==
    IF n = 0 THEN {<<>>}
    ELSE LET shorter == SeqsUpTo(S, n - 1)
         IN  shorter \cup {Append(q, x) : q \in shorter, x \in S}

RootLists == SeqsUpTo({D, F, E}, MaxRoots)

Faults ==
    {NoFault}
        \cup {[path |-> D, kind |-> k] : k \in {"stat", "readdir", "meta"}}
        \cup {[path |-> F, kind |-> k] : k \in {"stat", "meta", "open", "read"}}
        \cup {[path |-> Join(Dest, F), kind |-> k] : k \in {"write", "utime", "chmod"}}

\* an archive another tool wrote: an absolute name, a FIFO, a compressed file,
\* a name with a parent-directory segment
ForeignRows ==
    << [name |-> E, mode |-> S_IFREG + Oct(6, 4, 4), mtime |-> 3,
        sz |-> I64(2), data |-> Blob(<<1, 2>>)],
       [name |-> <<"p">>, mode |-> S_IFIFO + Oct(6, 4, 4), mtime |-> 3,
        sz |-> I64(0), data |-> Null],
       [name |-> <<"g">>, mode |-> S_IFREG + Oct(6, 4, 4), mtime |-> 3,
        sz |-> I64(MaxRun), data |-> Blob(ZlibEncode(Rep(7, MaxRun)))],
       [name |-> <<"..", "x">>, mode |-> S_IFREG + Oct(6, 4, 4), mtime |-> 3,
        sz |-> I64(2), data |-> Blob(<<1, 2>>)] >>

CodecIdle ==
    /\ cx = Null
    /\ csz = I64(0)
    /\ cstored = Null
    /\ cout = Err
    /\ cpc = "off"

ProgInit ==
    /\ \/ /\ ar = [exists |-> FALSE, table |-> FALSE, rows |-> <<>>]
          /\ \E dmode \in {Oct(7, 5, 5), Oct(5, 5, 5)}, fdata \in Contents,
                fmtime \in {-1, 2} : fs = Tree(dmode, fdata, fmtime)
          /\ fault \in Faults
       \/ /\ ar = [exists |-> TRUE, table |-> TRUE, rows |-> ForeignRows]
          /\ fs = Tree(Oct(7, 5, 5), <<>>, 2)
          /\ fault = NoFault
    /\ roots \in RootLists
    /\ pc = "idle"
    /\ ri = 1
    /\ walk = NewWalk
    /\ remaining = {}
    /\ decompress = FALSE
    /\ delivered = <<>>
    /\ res = [create |-> "none", extract |-> "none", read |-> "none"]
    /\ hist = [opened |-> FALSE, yielded |-> {}, skipped |-> {}, walkerr |-> {},
               collided |-> {}, made |-> {}]

Init == ProgInit /\ CodecIdle

Next ==
    \/ CreateCall
    \/ CreateEntry
    \/ CreateNextRoot
    \/ CreateReturn
    \/ ExtractCall
    \/ ExtractEntry
    \/ ExtractReturn
    \/ ReadCall
    \/ ReadEntry
    \/ ReadReturn

Spec == Init /\ [][Next]_vars

\* the codec alone, on generated arguments
CodecSpecInit ==
    /\ CodecInit
    /\ ar = [exists |-> FALSE, table |-> FALSE, rows |-> <<>>]
    /\ fs = Tree(Oct(7, 5, 5), <<>>, 2)
    /\ fault = NoFault
    /\ roots = <<>>
    /\ pc = "codec"
    /\ ri = 1
    /\ walk = NewWalk
    /\ remaining = {}
    /\ decompress = FALSE
    /\ delivered = <<>>
    /\ res = [create |-> "none", extract |-> "none", read |-> "none"]
    /\ hist = [opened |-> FALSE, yielded |-> {}, skipped |-> {}, walkerr |-> {},
               collided |-> {}, made |-> {}]

CodecStep == CodecNext /\ UNCHANGED progVars

CodecSpec == CodecSpecInit /\ [][CodecStep]_vars

-----------------------------------------------------------------------------
(* Properties *)

IsPrefix(a, b) == Len(a) <= Len(b) /\ SubSeq(b, 1, Len(a)) = a

RowsNamed(n) == {i \in 1..Len(ar.rows) : ar.rows[i].name = n}

\* create built the archive in this run and returned Ok
CreatedHere == hist.opened /\ res.create = "ok"

ExtractOver == res.extract # "none" /\ pc # "extract"

\* the row the step from this state to the next takes from the statement
Taken(i) == i \in remaining /\ i \notin remaining'

\* C1: round trip.  After create on a fresh archive path (relative roots) and
\* extract, extract has returned Ok and every archived object is found under
\* the destination under its name, with the type, content, permission bits
\* and modification time of the original.
C1_RoundTrip ==
    (/\ CreatedHere
     /\ ExtractOver
     /\ \A k \in 1..Len(roots) : ~IsAbsolute(roots[k]))
        => /\ res.extract = "ok"
           /\ \A i \in 1..Len(ar.rows) :
                 LET n == ar.rows[i].name
                     t == Dest \o n
                 IN  /\ t \in DOMAIN fs
                     /\ TypeBits(fs[t].mode) = TypeBits(fs[n].mode)
                     /\ fs[t].data = fs[n].data
                     /\ fs[t].mode % 512 = fs[n].mode % 512
                     /\ fs[t].mtime = fs[n].mtime

\* C2: codec round trip.  uncompress(compress(x), len(x)) returns x for every
\* blob x.
C2_CodecRoundTrip == cpc = "done" => cout = Ok(cx)

\* C2 witness: a blob that was stored compressed has made the round trip
C2_Witness == cpc = "done" /\ Len(cstored.v) < Len(cx.v) /\ cout = Ok(cx)

\* C3: compression fallback.  compress returns the zlib form only when it is
\* strictly shorter and x itself otherwise; uncompress returns the stored value
\* unchanged whenever SZ <= 0 or SZ is the stored length.
C3_Fallback ==
    /\ cpc = "stored" =>
          LET z == ZlibEncode(cx.v)
          IN  /\ cstored = IF Len(z) < Len(cx.v) THEN Blob(z) ELSE cx
              /\ Len(cstored.v) <= Len(cx.v)
              /\ (Len(cstored.v) = Len(cx.v)) <=> (cstored = cx)
    /\ (/\ cpc = "decoded"
        /\ \/ csz.q < 0
           \/ csz = I64(0)
           \/ cx.t = "blob" /\ csz = I64(Len(cx.v)))
          => cout = Ok(cx)

\* the step is a call of create
CreateCalled ==
    pc = "idle" /\ res.create = "none" /\ (res'.create # "none" \/ pc' = "create")

\* C4: no-clobber create.  A call of create on an existing archive path leaves
\* the archive and the filesystem as they are, opens no connection, walks no
\* root and returns Ok.
C4_NoClobber ==
    [][(CreateCalled /\ ar.exists)
          => /\ ar' = ar
             /\ fs' = fs
             /\ hist' = hist
             /\ pc' = "idle"
             /\ res'.create = "ok"]_vars

\* C4 witness: create has returned Ok on the archive that was there, without
\* opening it
C4_Witness == res.create = "ok" /\ ~hist.opened /\ ar.rows = ForeignRows

\* C5: path escape rejection.  The step of extract that takes an entry with an
\* absolute name changes nothing on the filesystem, materializes nothing, and
\* extract goes on.
C5_AbsoluteSkipped ==
    [][\A i \in 1..Len(ar.rows) :
          (/\ pc = "extract"
           /\ Taken(i)
           /\ EntryOf(ar.rows[i], TRUE).ok
           /\ IsAbsolute(ar.rows[i].name))
             => /\ fs' = fs
                /\ hist' = hist
                /\ pc' = "extract"
                /\ res' = res]_vars

\* C5 witness: extract has returned Ok on an archive holding an absolute name
\* next to an entry it materialized
C5_Witness ==
    /\ res.extract = "ok"
    /\ hist.made # {}
    /\ \E i \in 1..Len(ar.rows) : IsAbsolute(ar.rows[i].name)

ReadOver == res.read # "none" /\ pc # "read"

CallbackFailed ==
    \E i \in DOMAIN delivered :
       \E k \in 1..Len(delivered[i]) : ~delivered[i][k].fok

\* C6: full-mode read.  with_each_entry(path, true, f) on an archive create
\* wrote hands f every row exactly once, decoded, with the stored length, and
\* returns Ok unless a callback fails.
C6_FullRead ==
    (CreatedHere /\ ReadOver /\ decompress /\ ~CallbackFailed)
        => /\ res.read = "ok"
           /\ DOMAIN delivered = 1..Len(ar.rows)
           /\ \A i \in 1..Len(ar.rows) :
                 /\ Len(delivered[i]) = 1
                 /\ delivered[i][1].entry.data
                        = SqlarUncompress(ar.rows[i].data, ar.rows[i].sz).val
                 /\ delivered[i][1].entry.compressed_size = Len(ar.rows[i].data.v)

\* the objects create is pointed at: each root and what lies below it
UnderRoots ==
    {o \in DOMAIN fs : \E k \in 1..Len(roots) : IsPrefix(roots[k], o)}

\* C7 as stated: after create returned Ok, an object under a root has no row
\* when an error struck it and exactly one row otherwise.
C7_SkipExactlyThat ==
    CreatedHere
        => \A o \in UnderRoots :
              Cardinality(RowsNamed(Display(o)))
                  = IF fault.path = o THEN 0 ELSE 1

\* the walk reaches o from some root: no object from the root down to o fails
\* to be read as an entry, and no directory above o fails to be listed
Reached(o) ==
    \E k \in 1..Len(roots) :
       /\ IsPrefix(roots[k], o)
       /\ \A a \in DOMAIN fs :
             (IsPrefix(roots[k], a) /\ IsPrefix(a, o))
                 => /\ ~Fails(a, "stat")
                    /\ (a # o => ~Fails(a, "readdir"))

\* the environment fails the metadata call, the open or the read of o
Unreadable(o) == fault.path = o /\ fault.kind \in {"meta", "open", "read"}

\* C7 amended: an object has exactly one row when the walk reaches it and its
\* metadata and content can be read, and none otherwise; create fails only on
\* a name collision.
C7_SkipPolicy ==
    /\ CreatedHere
          => \A o \in DOMAIN fs :
                Cardinality(RowsNamed(Display(o)))
                    = IF Reached(o) /\ ~Unreadable(o)
                      THEN 1 ELSE 0
    /\ (hist.opened /\ res.create = "err") => hist.collided # {}

\* C7 witness: create returned Ok although a directory could not be listed;
\* the directory has its row and the file below it has none
C7_Witness ==
    /\ CreatedHere
    /\ Fails(D, "readdir")
    /\ RowsNamed(D) # {}
    /\ F \in UnderRoots
    /\ RowsNamed(F) = {}

\* the items the loop body may be inserting in the step from this state
Colliding ==
    {it \in WalkNext(walk, roots[ri]) :
        /\ it.kind = "ok"
        /\ ~(fault.path = it.path /\ fault.kind \in {"meta", "open", "read"})
        /\ Display(it.path) \in Names(ar.rows)}

\* C8: name uniqueness.  No two rows share a name; the step of create that
\* meets a name already in the archive returns the error and leaves the rows
\* as they are, and after the error nothing more is walked or inserted.
C8_UniqueNames ==
    /\ [](\A i, j \in 1..Len(ar.rows) :
             ar.rows[i].name = ar.rows[j].name => i = j)
    /\ [][(pc = "create" /\ roots # <<>>)
            => \A it \in Colliding :
                  walk' = it.w
                     => /\ res'.create = "err"
                        /\ pc' = "idle"
                        /\ ar'.rows = ar.rows]_vars
    /\ [][res.create = "err"
            => /\ ar'.rows = ar.rows
               /\ hist'.yielded = hist.yielded
               /\ res'.create = "err"]_vars

\* C8 witness: create has failed on a collision and the rows inserted before
\* are in the archive
C8_Witness == res.create = "err" /\ hist.collided # {} /\ Len(ar.rows) >= 2

\* C9: order independence of extract.  The step that takes a File or Directory
\* entry with a relative name while the row of its parent directory is still to
\* come materializes the entry and does not fail.
C9_ParentsOnDemand ==
    [][\A i \in 1..Len(ar.rows) :
          (/\ pc = "extract"
           /\ Taken(i)
           /\ EntryOf(ar.rows[i], TRUE).ok
           /\ ~IsAbsolute(ar.rows[i].name)
           /\ FileTypeOfMode(ar.rows[i].mode) # "Unsupported"
           /\ \E j \in remaining \ {i} :
                 /\ ar.rows[j].name = Parent(ar.rows[i].name)
                 /\ FileTypeOfMode(ar.rows[j].mode) = "Dir")
             => /\ i \in hist'.made
                /\ res'.extract = "none"]_vars

\* C10: extract post-state.  When extract has returned Ok, every entry it
\* materialized has the entry's mtime and the entry's permission bits on disk.
C10_PostState ==
    res.extract = "ok"
        => \A i \in hist.made :
              LET e == EntryOf(ar.rows[i], TRUE)
                  t == Resolve(fs, Join(Dest, e.name)).path
              IN  /\ fs[t].mtime = e.mtime
                  /\ fs[t].mode % 512 = e.mode

\* the place on disk extract aims at for the row i, in the file system g
TargetOf(g, i) == Resolve(g, Join(Dest, ar.rows[i].name)).path

\* the closure wants the row i on disk: it converts, is relative, is a file
\* or a directory
Wanted(i) ==
    LET e == EntryOf(ar.rows[i], TRUE)
    IN  e.ok /\ ~IsAbsolute(e.name) /\ e.filetype \in {"File", "Dir"}

\* the row i is fully on disk: its object is there with the row's payload,
\* mtime and permission bits
FullyMade(g, i) ==
    LET e == EntryOf(ar.rows[i], TRUE)
        t == TargetOf(g, i)
    IN  /\ t \in DOMAIN g
        /\ g[t].mtime = e.mtime
        /\ g[t].mode % 512 = e.mode
        /\ (e.filetype = "File" /\ e.data.t = "blob") => g[t].data = e.data.v

ExtractStopped == pc = "idle" /\ res.extract \in {"panic", "err"}

\* C11: extract is fail-fast without rollback.  A turn of the loop that takes
\* a row the closure wants on disk either puts it there in full and goes on, or
\* stops the extraction for good; the stopping turn removes nothing, so what
\* earlier turns made is still there; once stopped, no row is taken and the
\* disk is left alone; and a row is passed over with the extraction going on
\* only when its name is absolute or its type is unsupported.
C11_FailFast ==
    [][/\ \A i \in 1..Len(ar.rows) :
              (pc = "extract" /\ Taken(i)) =>
                  /\ Wanted(i) =>
                        \/ pc' = "extract" /\ i \in hist'.made /\ FullyMade(fs', i)
                        \/ pc' = "idle" /\ res'.extract = "panic"
                  /\ (pc' = "extract" /\ i \notin hist'.made) =>
                        LET e == EntryOf(ar.rows[i], TRUE)
                        IN  e.ok /\ (IsAbsolute(e.name) \/ e.filetype = "Unsupported")
                  /\ DOMAIN fs \subseteq DOMAIN fs'
                  /\ \A j \in hist.made : TargetOf(fs', j) \in DOMAIN fs'
       /\ ExtractStopped =>
              /\ fs' = fs
              /\ pc' # "extract"
              /\ hist'.made = hist.made
              /\ res'.extract = res.extract]_vars

\* a stopped extraction that had made an entry, left rows untaken, and whose
\* earlier entry is still on disk
C11_Witness ==
    /\ pc = "idle"
    /\ res.extract = "panic"
    /\ remaining # {}
    /\ \E j \in hist.made : FullyMade(fs, j)
    /\ \A j \in hist.made : TargetOf(fs, j) \in DOMAIN fs

\* the name of the row i has a parent-directory segment
Climbs(i) == \E k \in 1..Len(ar.rows[i].name) : ar.rows[i].name[k] = ".."

\* the file system lets the closure create the row i at dest joined with
\* its name
Creatable(g, i) ==
    LET e == EntryOf(ar.rows[i], TRUE)
    IN  IF e.filetype = "Dir"
        THEN FsCreateDir(g, Dest \o e.name, ExtractTime).ok
        ELSE FsCreateFile(g, Dest \o e.name, ExtractTime).ok

\* C12: the absolute-path test is the only name filter of extract.  A turn of
\* the loop that takes a file or directory row with a relative name, ".."
\* segments included, creates the object wherever the file system allows it:
\* at the place dest joined with the name leads to, with the row's type, and
\* nowhere else.
C12_OnlyAbsoluteFiltered ==
    [][\A i \in 1..Len(ar.rows) :
          (/\ pc = "extract"
           /\ Taken(i)
           /\ Wanted(i)
           /\ Creatable(fs, i))
             => LET t == Resolve(fs, Dest \o ar.rows[i].name).path
                IN  /\ i \in hist'.made
                    /\ t \in DOMAIN fs'
                    /\ FileTypeOfMode(fs'[t].mode)
                           = EntryOf(ar.rows[i], TRUE).filetype
                    /\ DOMAIN fs' \ DOMAIN fs \subseteq {t}]_vars

\* extract has put a row whose name climbs with ".." on disk, and the object
\* is outside the destination directory
C12_Witness ==
    \E i \in hist.made :
       /\ Climbs(i)
       /\ TargetOf(fs, i) \in DOMAIN fs
       /\ ~IsPrefix(Dest, TargetOf(fs, i))
       /\ Dest \o <<ar.rows[i].name[Len(ar.rows[i].name)]>> \notin DOMAIN fs

====
